---- MODULE Spec2Model ----
(***************************************************************************)
(* Model of rtx-3080-watcher (src/src/index.ts): the per-target watch loop *)
(* (Watcher.checkPage / loadPage), the tab admission gate (Main.wait and   *)
(* the setInterval reclaimer of Main.init) and the result evaluator        *)
(* (Watcher.getProducts / inStock / errors).                               *)
(*                                                                         *)
(* JavaScript values are encoded as follows.  An optional configuration    *)
(* field is a set: {} when the field is absent, {v} when it is v.  A price *)
(* is a record [k, v] with k one of "num", "NaN", "null", "undefined" and  *)
(* v the amount in hundredths (0 unless k = "num").  A product's errors    *)
(* field is a record [k, v] with k one of "undefined", "array", "string"   *)
(* and v the sequence of tags.                                             *)
(***************************************************************************)
EXTENDS Integers, Sequences, FiniteSets, TLC

\* Number of entries of MasterConfig.watches in the checked configurations.
NumWatches == 3

\* MasterConfig.maxTabs of the checked multi-target configuration.
ConfigMaxTabs == 2

\* Longest list of product elements a page shows.
MaxProducts == 2

\* The fallback of `MasterConfig.maxTabs ? MasterConfig.maxTabs : 10`.
DefaultMaxTabs == 10

Watchers == 1..NumWatches

(***************************************************************************)
(* Configuration (watch-config.json, read once)                            *)
(***************************************************************************)

\* JavaScript truthiness of an optional numeric field: absent and 0 are falsy.
Truthy(opt) == opt # {} /\ opt # {0}

\* The value of an optional field that is present.
Val(opt) == CHOOSE v \in opt : TRUE

\* interface WatchConfig, the fields the scheduler and the evaluator read.
WatchConfig(store, refreshSeconds, maxPrice, expectedProductCount) ==
    [store |-> store, refreshSeconds |-> refreshSeconds, maxPrice |-> maxPrice,
     expectedProductCount |-> expectedProductCount]

\* The global settings of watch-config.json with the list of watches; the
\* four intervals and the default price are those of the checked runs.
GlobalConfig(maxTabs, disable, watches) ==
    [maxTabs |-> maxTabs, disable |-> disable, watches |-> watches,
     errorTimeSeconds |-> 60, successTimeSeconds |-> 300,
     defaultRefreshSeconds |-> 30, defaultMaxPrice |-> 500]

(***************************************************************************)
(* Result evaluator: Watcher.getProducts, Watcher.inStock, Watcher.errors  *)
(***************************************************************************)

Digits == {"0", "1", "2", "3", "4", "5", "6", "7", "8", "9"}

DigitVal(c) ==
    CASE c = "0" -> 0 [] c = "1" -> 1 [] c = "2" -> 2 [] c = "3" -> 3
      [] c = "4" -> 4 [] c = "5" -> 5 [] c = "6" -> 6 [] c = "7" -> 7
      [] c = "8" -> 8 [] c = "9" -> 9

\* textContent.replace(/[^\d\.]/g, ''): keep the digits and the points.
StripPrice(text) == SelectSeq(text, LAMBDA c : c \in Digits \cup {"."})

RECURSIVE DecimalVal(_)
\* The value of a string of digits (0 for the empty string).
DecimalVal(ds) ==
    IF ds = <<>> THEN 0
    ELSE 10 * DecimalVal(SubSeq(ds, 1, Len(ds) - 1)) + DigitVal(ds[Len(ds)])

\* The hundredths denoted by the digits after the point (two digits are kept).
FractionVal(ds) ==
    IF ds = <<>> THEN 0
    ELSE IF Len(ds) = 1 THEN 10 * DigitVal(ds[1])
    ELSE 10 * DigitVal(ds[1]) + DigitVal(ds[2])

\* Number(s) for a string s of digits and points: 0 for the empty string,
\* NaN for more than one point or a lone point, otherwise the decimal value.
JSNumber(s) ==
    LET dots == {i \in 1..Len(s) : s[i] = "."}
    IN  IF s = <<>> THEN [k |-> "num", v |-> 0]
        ELSE IF Cardinality(dots) > 1 \/ s = <<".">> THEN [k |-> "NaN", v |-> 0]
        ELSE IF dots = {} THEN [k |-> "num", v |-> 100 * DecimalVal(s)]
        ELSE LET d == CHOOSE i \in dots : TRUE
             IN  [k |-> "num",
                  v |-> 100 * DecimalVal(SubSeq(s, 1, d - 1))
                        + FractionVal(SubSeq(s, d + 1, Len(s)))]

\* The record one product element yields: each field is resolved in its own
\* try block, a failure pushes the field's tag and leaves the field null.
ExtractProduct(raw) ==
    LET tags == (IF raw.name = "throw" THEN <<"Product name">> ELSE <<>>)
                \o (IF raw.url = "throw" THEN <<"Product URL">> ELSE <<>>)
                \o (IF raw.oos = "throw" THEN <<"Out of stock">> ELSE <<>>)
                \o (IF raw.price = {} THEN <<"Price">> ELSE <<>>)
    IN  [productName |-> IF raw.name = "throw" THEN "null" ELSE "text",
         productURL  |-> IF raw.url = "throw" THEN "null" ELSE "text",
         outOfStock  |-> IF raw.oos = "throw" THEN "null" ELSE raw.oos,
         price       |-> IF raw.price = {} THEN [k |-> "null", v |-> 0]
                         ELSE JSNumber(StripPrice(Val(raw.price))),
         errors      |-> IF tags = <<>> THEN [k |-> "undefined", v |-> <<>>]
                         ELSE [k |-> "array", v |-> tags]]

\* matches[0] = { errors: `Error loading page for ...` }: every other field
\* of the record is undefined and errors is a string.
LoadErrorRecord ==
    [productName |-> "undefined", productURL |-> "undefined",
     outOfStock |-> "undefined", price |-> [k |-> "undefined", v |-> 0],
     errors |-> [k |-> "string", v |-> <<"Error loading page">>]]

\* CheckCount with the errors of the last record replaced by the count
\* message instead of extended by it.
CheckCountOverwrite(matches, watchConfig) ==
    IF Len(matches) # watchConfig.expectedProductCount
    THEN IF Len(matches) = 0
         THEN <<LoadErrorRecord>>
         ELSE [matches EXCEPT ![Len(matches)].errors =
                  [k |-> "array", v |-> <<"Count mismatch">>]]
    ELSE matches

\* "Make sure we have the expected number of results".
CheckCount(matches, watchConfig) ==
    IF Len(matches) # watchConfig.expectedProductCount
    THEN IF Len(matches) = 0
         THEN <<LoadErrorRecord>>
         ELSE LET last == matches[Len(matches)]
                  old  == IF last.errors.k = "undefined" THEN <<>> ELSE last.errors.v
              IN  [matches EXCEPT ![Len(matches)].errors =
                      [k |-> "array", v |-> Append(old, "Count mismatch")]]
    ELSE matches

\* Watcher.getProducts on a page showing the elements `raws`.
GetProducts(raws, watchConfig) ==
    CheckCount([i \in 1..Len(raws) |-> ExtractProduct(raws[i])], watchConfig)

\* product.errors?.length > 0
HasErrors(product) == product.errors.k # "undefined" /\ Len(product.errors.v) > 0

\* Watcher.errors
Errors(products) == SelectSeq(products, HasErrors)

\* a < b for a price a and a number b: null converts to 0, undefined and NaN
\* compare false.
JSLess(price, b) ==
    CASE price.k = "num" -> price.v < b
      [] price.k = "null" -> 0 < b
      [] OTHER -> FALSE

\* this.watchConfig.maxPrice ? this.watchConfig.maxPrice : MasterConfig.defaultMaxPrice,
\* in hundredths.
MaxPrice(watchConfig, config) ==
    100 * (IF Truthy(watchConfig.maxPrice) THEN Val(watchConfig.maxPrice)
           ELSE config.defaultMaxPrice)

\* The filter of Watcher.inStock.
IsInStock(product, watchConfig, config) ==
    /\ product.outOfStock # "true"
    /\ JSLess(product.price, MaxPrice(watchConfig, config))

\* Watcher.inStock
InStock(products, watchConfig, config) ==
    SelectSeq(products, LAMBDA product : IsInStock(product, watchConfig, config))

(***************************************************************************)
(* The pages the watched sites serve                                       *)
(***************************************************************************)

\* The raw product elements of the sample pages.
RawItem(name, url, oos, price) ==
    [name |-> name, url |-> url, oos |-> oos, price |-> price]

Cheap == RawItem("ok", "ok", "false", {<<"$", "4", "9", "9", ".", "9", "9">>})
AtCeiling == RawItem("ok", "ok", "false", {<<"$", "5", "0", "0", ".", "0", "0">>})
SoldOut == RawItem("ok", "ok", "true", {<<"$", "4", "9", "9">>})
NoPrice == RawItem("ok", "ok", "false", {})

\* The pages served in the multi-target configuration: one per way a check
\* can be classified.
SampleFeed ==
    {<<SoldOut, AtCeiling>>, <<Cheap, AtCeiling>>, <<Cheap, NoPrice>>}

\* The texts of the price element on the pages of the single-target runs:
\* below the default ceiling, at it, with two points, and without any digit.
PriceTexts ==
    {<<"$", "4", "9", "9", ".", "9", "9">>, <<"$", "5", "0", "0", ".", "0", "0">>,
     <<"4", ".", "9", ".", "9">>, <<"N", "/", "A">>}

\* The ways the name, the URL and the out-of-stock flag of a product element
\* resolve or throw on those pages: all resolve (in stock, out of stock), or
\* all throw.
FieldOutcomes ==
    {<<"ok", "ok", "false">>, <<"ok", "ok", "true">>, <<"throw", "throw", "throw">>}

\* The product elements of the single-target runs: each of them with each
\* price text, and with no price element.
RawItems ==
    {RawItem(f[1], f[2], f[3], price) :
        f \in FieldOutcomes, price \in {{}} \cup {{t} : t \in PriceTexts}}

RECURSIVE ListsUpTo(_)
\* The lists of at most n product elements.
ListsUpTo(n) ==
    IF n = 0 THEN {<<>>}
    ELSE LET shorter == ListsUpTo(n - 1)
         IN  shorter \cup {Append(l, r) : l \in {x \in shorter : Len(x) = n - 1},
                                          r \in RawItems}

\* Every list of at most MaxProducts product elements.
FullFeed == ListsUpTo(MaxProducts)

\* The lists of product elements the pages of a run may show, by the name of
\* the run's feed.
Feed(name) ==
    CASE name = "sample" -> SampleFeed
      [] name = "soldout" -> {<<SoldOut, AtCeiling>>}
      [] name = "full" -> FullFeed

(***************************************************************************)
(* State                                                                   *)
(***************************************************************************)

VARIABLES
    MasterConfig,  \* the configuration read at startup (never changed)
    feed,          \* the name of the feed of this run (see Feed)
    startup,       \* per watch: the delay (ms) of its pending startup timer, if any
    pc,            \* per watch: where its checkPage invocation is suspended
    checks,        \* per watch: checkPage invocations started and not finished
    timers,        \* per watch: setTimeout callbacks armed and not yet fired
    page,          \* per watch: this.page ("undefined", "open", "closed")
    pagesRead,     \* per watch: pages.length read by its call of Main.wait
    navigation,    \* per watch: how page.goto settled in the load being processed
    outcome,       \* per watch: how the current (or last) check was classified
    armed,         \* per watch: the delays (ms) armed by the current check
    notified,      \* per watch: calls of notify in the current check
    sent,          \* per watch: the list the current check passed to notify
    products,      \* per watch: the list getProducts returned to the current check
    elements,      \* per watch: the product elements the page showed to that check
    npages,        \* (await browser.pages()).length: the blank tab plus the open pages
    closing,       \* pages whose close() was called and has not completed
    queue,         \* Main.queue: the watches whose wait() is unresolved
    tick,          \* the reclaimer callback: "idle" or "decide" (pages read)
    tickPages      \* pages.length read by the reclaimer callback

vars == <<MasterConfig, feed, startup, pc, checks, timers, page, pagesRead, navigation, outcome,
          armed, notified, sent, products, elements, npages, closing, queue,
          tick, tickPages>>

\* The variables of the watch loop that a step of the admission gate keeps.
watchVars ==
    <<checks, timers, page, navigation, outcome, armed, notified, sent, products,
      elements>>

\* The variables no step changes.
inputVars == <<MasterConfig, feed>>

\* MasterConfig.maxTabs ? MasterConfig.maxTabs : 10
MaxTabs == IF Truthy(MasterConfig.maxTabs) THEN Val(MasterConfig.maxTabs)
           ELSE DefaultMaxTabs

\* The filter of Main.init: a watch whose store is on the disable list is dropped.
Enabled(w) == MasterConfig.watches[w].store \notin MasterConfig.disable

(***************************************************************************)
(* Admission gate: Main.wait and the reclaimer                             *)
(***************************************************************************)

\* MustQueue without the test of the queue length.
MustQueueTabsOnly(queueLength, pagesLength) == pagesLength - 1 >= MaxTabs

\* The condition under which Main.wait queues the request.
MustQueue(queueLength, pagesLength) ==
    queueLength > 1 \/ pagesLength - 1 >= MaxTabs

\* The condition under which a reclaimer tick releases the head of the queue.
MayRelease(queueLength, pagesLength) ==
    queueLength > 0 /\ pagesLength = 1

\* checkPage is entered: loadPage calls this.wait, which calls browser.pages().
StartCheck(w) ==
    /\ checks' = [checks EXCEPT ![w] = @ + 1]
    /\ pc' = [pc EXCEPT ![w] = "wait"]
    /\ pagesRead' = [pagesRead EXCEPT ![w] = npages]
    /\ navigation' = [navigation EXCEPT ![w] = "none"]
    /\ outcome' = [outcome EXCEPT ![w] = "none"]
    /\ armed' = [armed EXCEPT ![w] = <<>>]
    /\ notified' = [notified EXCEPT ![w] = 0]
    /\ sent' = [sent EXCEPT ![w] = <<>>]
    /\ products' = [products EXCEPT ![w] = <<>>]
    /\ elements' = [elements EXCEPT ![w] = <<>>]

\* StartupDelay with the position in MasterConfig.watches as the index.
StartupDelayByPosition(w) == 5 * 1000 * (w - 1)

\* 5*1000*index of the forEach of Main.init: index is the position (from 0) of
\* the watch in the filtered list, the number of enabled watches before it.
StartupDelay(w) == 5 * 1000 * Cardinality({v \in 1..(w - 1) : Enabled(v)})

\* The startup timers Main.init arms: one for each watch that passes the filter.
StartupTimers == [w \in Watchers |-> IF Enabled(w) THEN {StartupDelay(w)} ELSE {}]

\* The startup timer of a watch fires (the pending timer with the shortest
\* delay fires first): new Watcher(...), whose constructor runs the first check.
Activate(w) ==
    /\ startup[w] # {}
    /\ \A v \in Watchers \ {w} :
          startup[v] # {} => Val(startup[w]) < Val(startup[v])
    /\ startup' = [startup EXCEPT ![w] = {}]
    /\ StartCheck(w)
    /\ UNCHANGED <<inputVars, timers, page, npages, closing, queue, tick, tickPages>>

\* The timer armed by a check fires: () => this.checkPage().
TimerFire(w) ==
    /\ timers[w] > 0
    /\ timers' = [timers EXCEPT ![w] = @ - 1]
    /\ StartCheck(w)
    /\ UNCHANGED <<inputVars, startup, page, npages, closing, queue, tick, tickPages>>

\* Main.wait resumes after `await this.browser.pages()`: it queues a resolver
\* or returns at once.
WaitDecide(w) ==
    /\ pc[w] = "wait"
    /\ IF MustQueue(Len(queue), pagesRead[w])
       THEN /\ queue' = Append(queue, w)
            /\ pc' = [pc EXCEPT ![w] = "queued"]
            /\ UNCHANGED pagesRead
       ELSE /\ queue' = queue
            /\ pc' = [pc EXCEPT ![w] = "newPage"]
            /\ pagesRead' = [pagesRead EXCEPT ![w] = 0]
    /\ UNCHANGED <<inputVars, startup, watchVars, npages, closing, tick, tickPages>>

\* The setInterval callback starts: it calls browser.pages().
TickRead ==
    /\ tick = "idle"
    /\ tick' = "decide"
    /\ tickPages' = npages
    /\ UNCHANGED <<inputVars, startup, watchVars, pc, pagesRead, npages, closing, queue>>

\* TickDecide calling the head of the queue without shifting it.
TickDecidePeek ==
    /\ tick = "decide"
    /\ tick' = "idle"
    /\ IF MayRelease(Len(queue), tickPages)
       THEN /\ pc' = [pc EXCEPT ![Head(queue)] = "newPage"]
            /\ pagesRead' = [pagesRead EXCEPT ![Head(queue)] = 0]
       ELSE UNCHANGED <<pc, pagesRead>>
    /\ queue' = queue
    /\ tickPages' = 0
    /\ UNCHANGED <<inputVars, startup, watchVars, npages, closing>>

\* The setInterval callback resumes: this.queue.shift()() when the queue is
\* not empty and only the blank tab was open.
TickDecide ==
    /\ tick = "decide"
    /\ tick' = "idle"
    /\ IF MayRelease(Len(queue), tickPages)
       THEN /\ pc' = [pc EXCEPT ![Head(queue)] = "newPage"]
            /\ queue' = Tail(queue)
            /\ pagesRead' = [pagesRead EXCEPT ![Head(queue)] = 0]
       ELSE UNCHANGED <<pc, queue, pagesRead>>
    /\ tickPages' = 0
    /\ UNCHANGED <<inputVars, startup, watchVars, npages, closing>>

(***************************************************************************)
(* Watch loop: Watcher.checkPage, loadPage, screenshot                     *)
(***************************************************************************)

\* this.watchConfig.refreshSeconds ? this.watchConfig.refreshSeconds*1000
\*                                 : MasterConfig.defaultRefreshSeconds*1000
RefreshDelay(watchConfig, config) ==
    IF Truthy(watchConfig.refreshSeconds)
    THEN Val(watchConfig.refreshSeconds) * 1000
    ELSE config.defaultRefreshSeconds * 1000

\* The delay armed after the screenshot taken at position `at`.
ScreenshotDelay(at, config) ==
    IF at = "screenshot_success" THEN config.successTimeSeconds * 1000
    ELSE config.errorTimeSeconds * 1000

\* "Set up the next check", "Close the page", and checkPage returns:
\* this.handle = setTimeout(...); this.page.close() (not awaited).
ArmCloseReturn(w, ms) ==
    /\ timers' = [timers EXCEPT ![w] = @ + 1]
    /\ armed' = [armed EXCEPT ![w] = Append(@, ms)]
    /\ page' = [page EXCEPT ![w] = "closed"]
    /\ closing' = closing + 1
    /\ checks' = [checks EXCEPT ![w] = @ - 1]
    /\ pc' = [pc EXCEPT ![w] = "idle"]

\* An await of checkPage throws outside the try block: the invocation ends
\* rejected, with nothing armed and nothing closed.
Reject(w) ==
    /\ checks' = [checks EXCEPT ![w] = @ - 1]
    /\ pc' = [pc EXCEPT ![w] = "dead"]
    /\ UNCHANGED <<timers, armed, page, closing>>

\* The catch block of checkPage is entered: log, then await this.screenshot('error').
CatchLoadError(w) ==
    /\ pc' = [pc EXCEPT ![w] = "screenshot_load"]
    /\ outcome' = [outcome EXCEPT ![w] = "loadfail"]
    /\ navigation' = [navigation EXCEPT ![w] = "none"]

\* loadPage resumes after wait: this.page = await this.browser.newPage().
NewPage(w) ==
    /\ pc[w] = "newPage"
    /\ \/ /\ npages' = npages + 1
          /\ page' = [page EXCEPT ![w] = "open"]
          /\ pc' = [pc EXCEPT ![w] = "goto"]
          /\ UNCHANGED <<outcome, navigation>>
       \/ /\ CatchLoadError(w)
          /\ UNCHANGED <<npages, page>>
    /\ UNCHANGED <<inputVars, startup, checks, timers, armed, notified, sent, products,
                   elements, pagesRead, closing, queue, tick, tickPages>>

\* Goto with the navigation error thrown on to checkPage instead of caught.
GotoUncaught(w) ==
    /\ pc[w] = "goto"
    /\ \/ /\ navigation' = [navigation EXCEPT ![w] = "ok"]
          /\ pc' = [pc EXCEPT ![w] = "waitForSelector"]
          /\ UNCHANGED outcome
       \/ CatchLoadError(w)
    /\ UNCHANGED <<inputVars, startup, checks, timers, page, armed, notified, sent, products,
                   elements, pagesRead, npages, closing, queue, tick, tickPages>>

\* await this.page.goto(...): the navigation completes, or it fails or times
\* out, which is caught and logged as a warning; either way loadPage goes on
\* to the selector wait.
Goto(w) ==
    /\ pc[w] = "goto"
    /\ \/ /\ navigation' = [navigation EXCEPT ![w] = "ok"]
          /\ pc' = [pc EXCEPT ![w] = "waitForSelector"]
          /\ UNCHANGED outcome
       \/ /\ navigation' = [navigation EXCEPT ![w] = "failed"]
          /\ pc' = [pc EXCEPT ![w] = "waitForSelector"]
          /\ UNCHANGED outcome
    /\ UNCHANGED <<inputVars, startup, checks, timers, page, armed, notified, sent, products,
                   elements, pagesRead, npages, closing, queue, tick, tickPages>>

\* await this.page.waitForSelector(...): loadPage returns and checkPage calls
\* getProducts, or the wait throws into the catch block of checkPage.
WaitForSelector(w) ==
    /\ pc[w] = "waitForSelector"
    /\ \/ /\ pc' = [pc EXCEPT ![w] = "getProducts"]
          /\ UNCHANGED <<outcome, navigation>>
       \/ CatchLoadError(w)
    /\ UNCHANGED <<inputVars, startup, checks, timers, page, armed, notified, sent, products,
                   elements, pagesRead, npages, closing, queue, tick, tickPages>>

\* OnErrors with the next check armed before the screenshot is awaited.
OnErrorsArmFirst(w) ==
    /\ pc' = [pc EXCEPT ![w] = "screenshot_error"]
    /\ outcome' = [outcome EXCEPT ![w] = "error"]
    /\ timers' = [timers EXCEPT ![w] = @ + 1]
    /\ armed' = [armed EXCEPT ![w] = Append(@, MasterConfig.errorTimeSeconds * 1000)]
    /\ UNCHANGED <<checks, page, notified, sent, closing>>

\* if (errors.length > 0): log, then await this.screenshot('error').
OnErrors(w) ==
    /\ pc' = [pc EXCEPT ![w] = "screenshot_error"]
    /\ outcome' = [outcome EXCEPT ![w] = "error"]
    /\ UNCHANGED <<checks, timers, page, armed, notified, sent, closing>>

\* else if (inStock.length === 0): arm the refresh timer, close, return.
OnNoStock(w) ==
    /\ outcome' = [outcome EXCEPT ![w] = "empty"]
    /\ ArmCloseReturn(w, RefreshDelay(MasterConfig.watches[w], MasterConfig))
    /\ UNCHANGED <<notified, sent>>

\* else: this.notify(inStock), then await this.screenshot('success').
OnInStock(w, inStock) ==
    /\ pc' = [pc EXCEPT ![w] = "screenshot_success"]
    /\ outcome' = [outcome EXCEPT ![w] = "success"]
    /\ notified' = [notified EXCEPT ![w] = @ + 1]
    /\ sent' = [sent EXCEPT ![w] = inStock]
    /\ UNCHANGED <<checks, timers, page, armed, closing>>

\* ProcessResults with the in-stock branch tested before the error branch.
ProcessResultsStockFirst(w, list) ==
    LET inStock == InStock(list, MasterConfig.watches[w], MasterConfig)
        errors  == Errors(list)
    IN  IF Len(inStock) > 0 THEN OnInStock(w, inStock)
        ELSE IF Len(errors) > 0 THEN OnErrors(w)
        ELSE OnNoStock(w)

\* "Process the results" of checkPage for the list getProducts returned.
ProcessResults(w, list) ==
    LET inStock == InStock(list, MasterConfig.watches[w], MasterConfig)
        errors  == Errors(list)
    IN  IF Len(errors) > 0 THEN OnErrors(w)
        ELSE IF Len(inStock) = 0 THEN OnNoStock(w)
        ELSE OnInStock(w, inStock)

\* checkPage resumes after `await this.getProducts()`: page.evaluate returned
\* the records of the elements the page shows, or it threw.
Evaluate(w) ==
    /\ pc[w] = "getProducts"
    /\ \/ \E raws \in Feed(feed) :
             LET list == GetProducts(raws, MasterConfig.watches[w])
             IN  /\ elements' = [elements EXCEPT ![w] = raws]
                 /\ products' = [products EXCEPT ![w] = list]
                 /\ ProcessResults(w, list)
       \/ /\ Reject(w)
          /\ UNCHANGED <<outcome, notified, sent, products, elements>>
    /\ navigation' = [navigation EXCEPT ![w] = "none"]
    /\ UNCHANGED <<inputVars, startup, pagesRead, npages, queue, tick, tickPages>>

\* checkPage resumes after `await this.screenshot(type)`: page.screenshot
\* succeeded on the open page, or it threw (always when this.page is not an
\* open page).
Screenshot(w) ==
    /\ pc[w] \in {"screenshot_load", "screenshot_error", "screenshot_success"}
    /\ \/ /\ page[w] = "open"
          /\ ArmCloseReturn(w, ScreenshotDelay(pc[w], MasterConfig))
       \/ Reject(w)
    /\ UNCHANGED <<inputVars, startup, navigation, outcome, notified, sent, products, elements,
                   pagesRead, npages, queue, tick, tickPages>>

\* A page.close() completes: the page leaves browser.pages().
PageClosed ==
    /\ closing > 0
    /\ closing' = closing - 1
    /\ npages' = npages - 1
    /\ UNCHANGED <<inputVars, startup, watchVars, pc, pagesRead, queue, tick, tickPages>>

(***************************************************************************)
(* Specifications                                                          *)
(***************************************************************************)

\* Three watches: no refreshSeconds, refreshSeconds 0, refreshSeconds 7.
SampleWatches ==
    [w \in Watchers |->
        WatchConfig(w, CASE w % 3 = 1 -> {} [] w % 3 = 2 -> {0} [] OTHER -> {7},
                    {}, 2)]

StateInit ==
    /\ startup = StartupTimers
    /\ pc = [w \in Watchers |-> "inactive"]
    /\ checks = [w \in Watchers |-> 0]
    /\ timers = [w \in Watchers |-> 0]
    /\ page = [w \in Watchers |-> "undefined"]
    /\ pagesRead = [w \in Watchers |-> 0]
    /\ navigation = [w \in Watchers |-> "none"]
    /\ outcome = [w \in Watchers |-> "none"]
    /\ armed = [w \in Watchers |-> <<>>]
    /\ notified = [w \in Watchers |-> 0]
    /\ sent = [w \in Watchers |-> <<>>]
    /\ products = [w \in Watchers |-> <<>>]
    /\ elements = [w \in Watchers |-> <<>>]
    /\ npages = 1
    /\ closing = 0
    /\ queue = <<>>
    /\ tick = "idle"
    /\ tickPages = 0

Init ==
    /\ MasterConfig = GlobalConfig({ConfigMaxTabs}, {}, SampleWatches)
    /\ feed = "sample"
    /\ StateInit

Next ==
    \/ \E w \in Watchers : Activate(w)
    \/ \E w \in Watchers : TimerFire(w)
    \/ \E w \in Watchers : WaitDecide(w)
    \/ \E w \in Watchers : NewPage(w)
    \/ \E w \in Watchers : Goto(w)
    \/ \E w \in Watchers : WaitForSelector(w)
    \/ \E w \in Watchers : Evaluate(w)
    \/ \E w \in Watchers : Screenshot(w)
    \/ PageClosed
    \/ TickRead
    \/ TickDecide

Spec == Init /\ [][Next]_vars

\* A step of the check of watch w (at most one of them is enabled at a time).
WatcherStep(w) ==
    \/ Activate(w) \/ TimerFire(w) \/ WaitDecide(w) \/ NewPage(w) \/ Goto(w)
    \/ WaitForSelector(w) \/ Evaluate(w) \/ Screenshot(w)

\* The scheduling of the event loop: every timer that is armed fires, every
\* awaited browser operation settles, the 250 ms interval keeps firing, and a
\* browser that is idle again and again is seen idle by some tick.
Fairness ==
    /\ \A w \in Watchers : WF_vars(WatcherStep(w))
    /\ WF_vars(PageClosed)
    /\ WF_vars(TickRead \/ TickDecide)
    /\ SF_vars(TickRead /\ npages = 1)

\* Two active watches sharing one tab (the third store is on the disable
\* list), every page showing the same sold-out products.
FairInit ==
    /\ MasterConfig = GlobalConfig({1}, {3}, SampleWatches)
    /\ feed = "soldout"
    /\ StateInit

FairSpec == FairInit /\ [][Next]_vars /\ Fairness

\* The configurations of the single watch: the optional fields absent, 0 or
\* set, with each expected count a page can show.
CheckConfigs ==
    {WatchConfig(1, optional[1], optional[2], expected) :
        optional \in {<<{}, {}>>, <<{0}, {0}>>, <<{7}, {600}>>},
        expected \in 1..MaxProducts}

\* One active watch with one tab (every other store is on the disable list)
\* whose page may show any list of product elements.
CheckInit ==
    /\ MasterConfig \in
          {GlobalConfig({1}, Watchers \ {1},
                        [w \in Watchers |-> IF w = 1 THEN c ELSE SampleWatches[w]]) :
              c \in CheckConfigs}
    /\ feed = "full"
    /\ StateInit

CheckSpec == CheckInit /\ [][Next]_vars

\* The three watches with any list of disabled stores.
ActivationInit ==
    /\ MasterConfig \in
          {GlobalConfig({ConfigMaxTabs}, disable, SampleWatches) :
              disable \in SUBSET Watchers}
    /\ feed = "sample"
    /\ StateInit

ActivationSpec == ActivationInit /\ [][Next]_vars

(***************************************************************************)
(* Admission gate properties                                               *)
(***************************************************************************)

\* The pages opened by watchers on which close() has not been called.
OpenPages == {w \in Watchers : page[w] = "open"}

\* C1: the number of page contexts opened by watchers and not yet closed
\* never exceeds the ceiling maxTabs.
C1_Ceiling == Cardinality(OpenPages) <= MaxTabs

C3_FifoAdmission ==
    [][\A w \in Watchers :
          (pc[w] # "newPage" /\ pc'[w] = "newPage")
              => (queue = <<>> \/ Head(queue) = w)]_vars

\* C4: Main.wait resolves at once if and only if the open watch pages it
\* read are below the ceiling and the wait queue is empty; otherwise the
\* request goes to the tail of the queue.
C4_ImmediateGrant ==
    [][\A w \in Watchers :
          (pc[w] = "wait" /\ pc'[w] # "wait")
              => /\ (pc'[w] = "newPage")
                      <=> (pagesRead[w] - 1 < MaxTabs /\ queue = <<>>)
                 /\ (pc'[w] # "newPage")
                      => (pc'[w] = "queued" /\ queue' = Append(queue, w))]_vars

(***************************************************************************)
(* Watch loop properties                                                   *)
(***************************************************************************)

\* C5: a watch never has more than one check in flight or more than one timer
\* pending, and no timer is pending while a check of the watch is in flight,
\* so a check starts only when the timer of the finished check fires.
C5_Sequential == \A w \in Watchers : checks[w] + timers[w] <= 1

\* A re-check started by the timer of a finished check is in flight.
C5_Witness ==
    \E w \in Watchers :
        checks[w] = 1 /\ timers[w] = 0 /\ pc[w] = "wait" /\ page[w] = "closed"

\* C6: a check that was started and has ended has armed the next check,
\* whatever failed during it.
C6_AlwaysRearms ==
    \A w \in Watchers : (pc[w] # "inactive" /\ checks[w] = 0) => timers[w] > 0

\* The delay the backoff cadence prescribes for the outcome of a check, with
\* refreshSeconds taken whenever it is configured.
CadenceDelay(w) ==
    LET watchConfig == MasterConfig.watches[w]
    IN  CASE outcome[w] \in {"loadfail", "error"} ->
                 MasterConfig.errorTimeSeconds * 1000
          [] outcome[w] = "empty" ->
                 IF watchConfig.refreshSeconds # {}
                 THEN Val(watchConfig.refreshSeconds) * 1000
                 ELSE MasterConfig.defaultRefreshSeconds * 1000
          [] outcome[w] = "success" -> MasterConfig.successTimeSeconds * 1000
          [] OTHER -> 0

\* C7: a check that has armed its timer armed exactly one delay, the one the
\* cadence prescribes for its outcome.
C7_Cadence ==
    \A w \in Watchers : pc[w] = "idle" => armed[w] = <<CadenceDelay(w)>>

\* A record without error tags, not out of stock, priced below the ceiling
\* in effect for the watch.
Qualifying(product, w) ==
    /\ product.errors.k = "undefined"
    /\ product.outOfStock = "false"
    /\ product.price.k = "num"
    /\ product.price.v < MaxPrice(MasterConfig.watches[w], MasterConfig)

\* The list has a record with error tags (or the synthetic error record).
HasErrorRecord(list) == \E i \in 1..Len(list) : list[i].errors.k # "undefined"

\* C8: within a check the notifier is called once, with exactly the
\* qualifying items, when the list has no error record and a qualifying
\* item, and is not called otherwise (nor before the list is evaluated, nor
\* after a load failure).
C8_Notification ==
    \A w \in Watchers :
        LET qualifying == SelectSeq(products[w], LAMBDA p : Qualifying(p, w))
            evaluated  == outcome[w] \in {"error", "empty", "success"}
        IN  /\ notified[w] <= 1
            /\ notified[w] = 1 => evaluated /\ sent[w] = qualifying
            /\ evaluated =>
                 (notified[w] = 1
                    <=> (~HasErrorRecord(products[w]) /\ qualifying # <<>>))

\* A check notified with the one qualifying item of a list of two records.
C8_Witness ==
    \E w \in Watchers :
        notified[w] = 1 /\ Len(products[w]) = 2 /\ Len(sent[w]) = 1

(***************************************************************************)
(* Evaluator properties                                                    *)
(***************************************************************************)

\* C9: no record of a list getProducts returned is both in inStock and in
\* errors.
C9_Disjoint ==
    \A w \in Watchers :
        LET inStock == InStock(products[w], MasterConfig.watches[w], MasterConfig)
            errors  == Errors(products[w])
        IN  \A i \in 1..Len(inStock) : \A j \in 1..Len(errors) :
                inStock[i] # errors[j]

\* C10: a record whose price is null (the "Price" tag) or undefined (the
\* synthetic record) is not in inStock.
C10_UnresolvedPrice ==
    \A w \in Watchers : \A i \in 1..Len(products[w]) :
        products[w][i].price.k \in {"null", "undefined"}
            => ~IsInStock(products[w][i], MasterConfig.watches[w], MasterConfig)

\* The ceiling in effect for a watch (hundredths): its maxPrice whenever that
\* is configured, otherwise defaultMaxPrice.
EffectiveCeiling(watchConfig, config) ==
    100 * (IF watchConfig.maxPrice # {} THEN Val(watchConfig.maxPrice)
           ELSE config.defaultMaxPrice)

\* C11: a record without error tags that is not out of stock is in inStock
\* if and only if its price is a number strictly below the effective ceiling,
\* which is the configured maxPrice (0 included) or else defaultMaxPrice.
C11_CeilingBoundary ==
    \A w \in Watchers : \A i \in 1..Len(products[w]) :
        LET product == products[w][i]
            watchConfig == MasterConfig.watches[w]
        IN  (product.errors.k = "undefined" /\ product.outOfStock = "false")
                => (IsInStock(product, watchConfig, MasterConfig)
                      <=> /\ product.price.k = "num"
                          /\ product.price.v
                                < EffectiveCeiling(watchConfig, MasterConfig))

\* The records of the product elements the page showed to the check of w,
\* before the count is validated.
Extracted(w) == [i \in 1..Len(elements[w]) |-> ExtractProduct(elements[w][i])]

\* C12: when the number of extracted items differs from expectedProductCount
\* the list has an error record, the check takes the error branch and does
\* not notify; zero items give exactly the one synthetic record, one or more
\* items keep their number and the last record gets the count error after its
\* earlier tags; when the count matches the list is the extracted one.
C12_CountValidation ==
    \A w \in Watchers :
        outcome[w] \in {"error", "empty", "success"} =>
            LET extracted == Extracted(w)
                n == Len(extracted)
                list == products[w]
            IN  IF n # MasterConfig.watches[w].expectedProductCount
                THEN /\ HasErrorRecord(list)
                     /\ outcome[w] = "error"
                     /\ notified[w] = 0
                     /\ n = 0 => /\ Len(list) = 1
                                 /\ list[1].errors.k = "string"
                                 /\ list[1].price.k = "undefined"
                     /\ n > 0 =>
                          /\ Len(list) = n
                          /\ \A i \in 1..(n - 1) : list[i] = extracted[i]
                          /\ list[n].errors.k = "array"
                          /\ list[n].errors.v
                                = extracted[n].errors.v \o <<"Count mismatch">>
                          /\ [list[n] EXCEPT !.errors = extracted[n].errors]
                                = extracted[n]
                ELSE list = extracted

\* One element was found where two were expected, and its record carried
\* error tags of its own before the count error was appended.
C12_Witness ==
    \E w \in Watchers :
        /\ outcome[w] = "error"
        /\ Len(elements[w]) = 1
        /\ MasterConfig.watches[w].expectedProductCount = 2
        /\ Len(products[w]) = 1
        /\ Len(products[w][1].errors.v) >= 2

(***************************************************************************)
(* Release, re-arm and reclaimer properties                                *)
(***************************************************************************)

\* C13: a check arms the timer of the next check when its page context has
\* been closed (the page is not open any more and no close is left pending by
\* the arming step), and a timer that fires does nothing but start a check,
\* which begins in Main.wait.
C13_CloseThenArm ==
    [][\A w \in Watchers :
          /\ timers'[w] > timers[w] => (page[w] # "open" /\ closing' = closing)
          /\ timers'[w] < timers[w]
                => (pc'[w] = "wait" /\ checks'[w] = checks[w] + 1)]_vars

\* C14: a queued request is resolved only by a reclaimer tick, as the head of
\* the queue and one per tick, at a moment when the queue is not empty and
\* only the blank tab is open; a tick that resumes with the queue empty or a
\* watch page open leaves the queue as it is.
C14_ReclaimerStep ==
    [][LET ticked == tick = "decide" /\ tick' = "idle"
       IN  /\ \A w \in Watchers :
                (pc[w] = "queued" /\ pc'[w] # "queued")
                    => /\ ticked
                       /\ queue # <<>>
                       /\ Head(queue) = w
                       /\ queue' = Tail(queue)
                       /\ pc'[w] = "newPage"
                       /\ npages = 1
           /\ Len(queue') < Len(queue)
                => (ticked /\ queue' = Tail(queue)
                      /\ pc[Head(queue)] = "queued" /\ pc'[Head(queue)] = "newPage")
           /\ (ticked /\ (queue = <<>> \/ npages # 1)) => queue' = queue]_vars

\* C15: under fair scheduling a page context opened by a check is eventually
\* closed (close() is called on it), whichever way the check ends.
C15_PageRelease ==
    \A w \in Watchers : (page[w] = "open") ~> (page[w] # "open")

\* C16: a call of Main.wait that evaluates its condition while more than one
\* request is waiting in the queue appends its request to the queue, whatever
\* the number of open pages.
C16_Congestion ==
    [][Len(queue) > 1 =>
          \A w \in Watchers :
              (pc[w] = "wait" /\ pc'[w] # "wait")
                  => (pc'[w] = "queued" /\ queue' = Append(queue, w))]_vars

\* A request was queued behind two others by a call of Main.wait that had
\* read a browser with only the blank tab open.
C16_Witness ==
    \E w \in Watchers :
        /\ pc[w] = "queued"
        /\ Len(queue) = 3
        /\ queue[3] = w
        /\ pagesRead[w] = 1

\* The entries of the wait queue are the requests of the watches suspended
\* in Main.wait, one entry each.
QueueWellFormed ==
    /\ \A i, j \in 1..Len(queue) : queue[i] = queue[j] => i = j
    /\ \A w \in Watchers : pc[w] = "queued" <=> \E i \in 1..Len(queue) : queue[i] = w
    /\ Len(queue) <= Cardinality({w \in Watchers : pc[w] # "inactive"})

\* C17: every activated watch has at most one unresolved entry in the wait
\* queue, so the queue is never longer than the number of activated watches;
\* an entry is added only by Main.wait, at the tail, and removed only by the
\* reclaimer, from the head, which resolves the removed entry.
C17_QueueInvariant ==
    /\ []QueueWellFormed
    /\ [][queue' # queue =>
            \/ \E w \in Watchers :
                  pc[w] = "wait" /\ pc'[w] = "queued" /\ queue' = Append(queue, w)
            \/ /\ tick = "decide" /\ tick' = "idle"
               /\ queue # <<>> /\ queue' = Tail(queue)
               /\ pc[Head(queue)] = "queued" /\ pc'[Head(queue)] = "newPage"]_vars

\* Every watch has been activated and has its one entry in the queue.
C17_Witness ==
    /\ \A w \in Watchers : pc[w] = "queued"
    /\ Len(queue) = NumWatches

(***************************************************************************)
(* Load and activation properties                                          *)
(***************************************************************************)

\* The branch of checkPage a list of records is processed by.
Classify(list, w) ==
    IF Len(Errors(list)) > 0 THEN "error"
    ELSE IF Len(InStock(list, MasterConfig.watches[w], MasterConfig)) = 0
         THEN "empty"
         ELSE "success"

\* C18: page.goto, failed or not, is followed by the selector wait and never
\* by the load-failure path; a check enters the load-failure path only from
\* browser.newPage or from the selector wait; and after a selector wait that
\* succeeded the page is evaluated and classified by its records alone,
\* whether the navigation had failed or not.
C18_NavigationTolerated ==
    [][\A w \in Watchers :
          /\ (pc[w] = "goto" /\ pc'[w] # "goto")
                => (pc'[w] = "waitForSelector" /\ outcome'[w] = outcome[w])
          /\ (outcome'[w] = "loadfail" /\ outcome[w] # "loadfail")
                => pc[w] \in {"newPage", "waitForSelector"}
          /\ (pc[w] = "waitForSelector" /\ pc'[w] # "waitForSelector")
                => \/ pc'[w] = "getProducts" /\ outcome'[w] = outcome[w]
                   \/ pc'[w] = "screenshot_load" /\ outcome'[w] = "loadfail"
          /\ (pc[w] = "getProducts" /\ pc'[w] \notin {"getProducts", "dead"})
                => outcome'[w] = Classify(products'[w], w)]_vars

\* The navigation of a check failed, its selector wait succeeded, and the
\* check is about to evaluate the page.
C18_Witness ==
    \E w \in Watchers :
        navigation[w] = "failed" /\ pc[w] = "getProducts" /\ outcome[w] = "none"

\* The position (from 0) of an enabled watch among the enabled watches, in
\* the order of MasterConfig.watches.
EnabledBefore(w) == Cardinality({v \in Watchers : v < w /\ Enabled(v)})

Malformed(s) == s = <<>> \/ Cardinality({i \in 1..Len(s) : s[i] = "."}) > 1

\* The record carries the tag in its errors array.
HasTag(product, tag) ==
    /\ product.errors.k = "array"
    /\ \E i \in 1..Len(product.errors.v) : product.errors.v[i] = tag

\* C20: the record of a product element whose price text is malformed after
\* stripping carries the "Price" tag and is not in inStock, and the check
\* that evaluated it takes the error branch and does not notify.
C20_MalformedPrice ==
    \A w \in Watchers : \A i \in 1..Len(elements[w]) :
        LET raw == elements[w][i]
        IN  (raw.price # {} /\ Malformed(StripPrice(Val(raw.price))))
                => /\ HasTag(products[w][i], "Price")
                   /\ ~IsInStock(products[w][i], MasterConfig.watches[w],
                                 MasterConfig)
                   /\ outcome[w] = "error"
                   /\ notified[w] = 0

====
